---- MODULE Spec2Model ----
(***************************************************************************)
(* A model of oscal_common_cp/__main__.py: the converter of a tokenized    *)
(* Common Policy document (a list of text lines) into an OSCAL catalog.    *)
(*                                                                         *)
(* Text is modelled character by character: a str is a sequence of         *)
(* one-character strings, a list[str] a sequence of those.  Python's       *)
(* 0-based (and negative) list indexes are kept as integers and converted  *)
(* where a list is read.  Group objects live in an arena (the variable     *)
(* heap) and are referred to by their index, so that aliasing, sharing and *)
(* cycles between Group objects are visible.                                *)
(***************************************************************************)
EXTENDS Integers, Sequences, FiniteSets, TLC

(***************************************************************************)
(* Text primitives (Python str / list / re behaviour used by the program). *)
(***************************************************************************)

\* A string literal as a sequence of characters.
Chars(s) == [i \in 1..Len(s) |-> SubSeq(s, i, i)]

Min(S) == CHOOSE x \in S : \A y \in S : x <= y

Max(S) == CHOOSE x \in S : \A y \in S : x >= y

\* p occurs in s at (1-based) position i.
StartsWithAt(s, p, i) ==
    /\ i >= 1
    /\ i + Len(p) - 1 <= Len(s)
    /\ \A k \in 1..Len(p) : s[i + k - 1] = p[k]

\* Python's  p in s  for strings.
Contains(s, p) == \E i \in 1..(Len(s) - Len(p) + 1) : StartsWithAt(s, p, i)

\* The position of the first occurrence of p in s (0 when there is none).
FindFirst(s, p) ==
    LET at == {i \in 1..(Len(s) - Len(p) + 1) : StartsWithAt(s, p, i)}
    IN  IF at = {} THEN 0 ELSE Min(at)

\* re.sub(p, "", s) for a literal, non-empty p: every non-overlapping
\* occurrence, scanning left to right, is removed.
RECURSIVE RemoveAllFrom(_, _, _)
RemoveAllFrom(s, p, i) ==
    IF i > Len(s) THEN <<>>
    ELSE IF StartsWithAt(s, p, i) THEN RemoveAllFrom(s, p, i + Len(p))
    ELSE <<s[i]>> \o RemoveAllFrom(s, p, i + 1)

RemoveAll(s, p) == RemoveAllFrom(s, p, 1)

\* re.sub(p, r, s) for literal p and r.
RECURSIVE ReplaceAllFrom(_, _, _, _)
ReplaceAllFrom(s, p, r, i) ==
    IF i > Len(s) THEN <<>>
    ELSE IF StartsWithAt(s, p, i) THEN r \o ReplaceAllFrom(s, p, r, i + Len(p))
    ELSE <<s[i]>> \o ReplaceAllFrom(s, p, r, i + 1)

ReplaceAll(s, p, r) == ReplaceAllFrom(s, p, r, 1)

\* re.sub("#+", "", s): every run of hashes is removed, wherever it is.
RemoveHashes(s) == SelectSeq(s, LAMBDA c : c # "#")

\* The length of the match of re.match(r"#+", s): the leading run of hashes
\* (0: no match).
RECURSIVE LeadingHashes(_)
LeadingHashes(s) ==
    IF s # <<>> /\ Head(s) = "#" THEN 1 + LeadingHashes(Tail(s)) ELSE 0

Whitespace == {" ", "\t"}

RECURSIVE LStrip(_)
LStrip(s) == IF s # <<>> /\ Head(s) \in Whitespace THEN LStrip(Tail(s)) ELSE s

RECURSIVE RStrip(_)
RStrip(s) ==
    IF s # <<>> /\ s[Len(s)] \in Whitespace
    THEN RStrip(SubSeq(s, 1, Len(s) - 1))
    ELSE s

\* str.strip()
Strip(s) == LStrip(RStrip(s))

UpperCase == Chars("ABCDEFGHIJKLMNOPQRSTUVWXYZ")

LowerCase == Chars("abcdefghijklmnopqrstuvwxyz")

LowerChar(c) ==
    IF \E k \in 1..Len(UpperCase) : UpperCase[k] = c
    THEN LowerCase[CHOOSE k \in 1..Len(UpperCase) : UpperCase[k] = c]
    ELSE c

\* str.lower()
Lower(s) == [i \in 1..Len(s) |-> LowerChar(s[i])]

DigitChars == Chars("0123456789")

IsDigit(c) == \E k \in 1..Len(DigitChars) : DigitChars[k] = c

DigitValue(c) == (CHOOSE k \in 1..Len(DigitChars) : DigitChars[k] = c) - 1

\* str(n) for a natural number n.
RECURSIVE Str(_)
Str(n) ==
    IF n < 10 THEN <<DigitChars[n + 1]>>
    ELSE Str(n \div 10) \o <<DigitChars[(n % 10) + 1]>>

\* sep.join(parts)
RECURSIVE Join(_, _)
Join(sep, parts) ==
    IF parts = <<>> THEN <<>>
    ELSE IF Len(parts) = 1 THEN parts[1]
    ELSE parts[1] \o sep \o Join(sep, Tail(parts))

\* "".join(parts)
RECURSIVE Concat(_)
Concat(parts) == IF parts = <<>> THEN <<>> ELSE Head(parts) \o Concat(Tail(parts))

\* Python list indexing: index k (0-based, negative counts from the end) is
\* inside the list.
InRange(list, k) == k >= -Len(list) /\ k < Len(list)

\* list[k] for an index inside the list.
At(list, k) == list[(IF k < 0 THEN k + Len(list) ELSE k) + 1]

\* list[a:b] with Python's clamping of slice bounds.
Slice(list, a, b) ==
    LET n  == Len(list)
        a1 == IF a < 0 THEN (IF a + n < 0 THEN 0 ELSE a + n) ELSE (IF a > n THEN n ELSE a)
        b1 == IF b < 0 THEN (IF b + n < 0 THEN 0 ELSE b + n) ELSE (IF b > n THEN n ELSE b)
    IN  SubSeq(list, a1 + 1, b1)

(***************************************************************************)
(* strip_html_from_text and title_to_id.                                    *)
(***************************************************************************)

\* re.sub("<.*>", "", input): the pattern is greedy, so the one match runs
\* from the first "<" to the last ">" of the line.
strip_html_from_text(input) ==
    LET lt == {i \in 1..Len(input) : input[i] = "<"}
        gt == {i \in 1..Len(input) : input[i] = ">"}
    IN  IF lt = {} \/ gt = {} THEN input
        ELSE IF Max(gt) < Min(lt) THEN input
        ELSE SubSeq(input, 1, Min(lt) - 1) \o SubSeq(input, Max(gt) + 1, Len(input))

\* The characters title_to_id removes ("RSQUO" stands for U+2019).
InvalidIdChars == {"(", ")", ",", "/", "RSQUO", ":"}

title_to_id(title) ==
    LET id == [i \in 1..Len(Strip(Lower(title))) |->
                  IF Strip(Lower(title))[i] = " " THEN "-" ELSE Strip(Lower(title))[i]]
    IN  SelectSeq(id, LAMBDA c : c \notin InvalidIdChars)

(***************************************************************************)
(* parse_html_table: the backward scan for the opening tag, and the        *)
(* TableParser(HTMLParser) state machine.                                   *)
(***************************************************************************)

\* The name of the tag that starts at position i of s (after "<" or "</"),
\* lower-cased as HTMLParser does: the characters up to a space, "/" or ">".
RECURSIVE TagName(_, _)
TagName(s, i) ==
    IF i > Len(s) \/ s[i] \in {" ", "\t", "/", ">"} THEN <<>>
    ELSE <<LowerChar(s[i])>> \o TagName(s, i + 1)

\* HTMLParser.feed(s) as the sequence of handler calls it makes, for text
\* made of character data and tags <name ...>, </name> and <name/>.  An
\* unfinished tag at the end of the text stays in the parser's buffer (the
\* program never calls close()), so nothing is reported for it.
RECURSIVE Tokenize(_, _)
Tokenize(s, i) ==
    IF i > Len(s) THEN <<>>
    ELSE IF s[i] = "<" THEN
        LET closes == {j \in (i + 1)..Len(s) : s[j] = ">"}
        IN  IF closes = {} THEN <<>>
            ELSE LET j == Min(closes)
                 IN  IF s[i + 1] = "/"
                     THEN <<[kind |-> "end", v |-> TagName(s, i + 2)]>>
                          \o Tokenize(s, j + 1)
                     ELSE IF s[j - 1] = "/"
                     THEN <<[kind |-> "start", v |-> TagName(s, i + 1)],
                            [kind |-> "end", v |-> TagName(s, i + 1)]>>
                          \o Tokenize(s, j + 1)
                     ELSE <<[kind |-> "start", v |-> TagName(s, i + 1)]>>
                          \o Tokenize(s, j + 1)
    ELSE LET opens == {j \in i..Len(s) : s[j] = "<"}
             e     == IF opens = {} THEN Len(s) + 1 ELSE Min(opens)
         IN  <<[kind |-> "data", v |-> SubSeq(s, i, e - 1)]>> \o Tokenize(s, e)

TagTr == Chars("tr")

TagTd == Chars("td")

\* A fresh TableParser.  The rows are list objects: rows holds them,
\* parsed_table and current_row refer to them by index (row 1 is the list the
\* class attribute current_row starts with).  current_cell has no value until
\* a td start tag is seen (cell_set).
NewTableParser ==
    [rows         |-> << <<>> >>,
     parsed_table |-> <<>>,
     current_row  |-> 1,
     current_cell |-> <<>>,
     cell_set     |-> FALSE,
     in_row       |-> FALSE,
     in_cell      |-> FALSE,
     raised       |-> "none"]

handle_starttag(p, tag) ==
    LET p1 == IF tag = TagTr
              THEN [p EXCEPT !.rows = Append(p.rows, <<>>),
                             !.current_row = Len(p.rows) + 1,
                             !.in_row = TRUE]
              ELSE p
    IN  IF tag = TagTd
        THEN [p1 EXCEPT !.current_cell = <<>>, !.cell_set = TRUE, !.in_cell = TRUE]
        ELSE p1

handle_endtag(p, tag) ==
    LET p1 == IF tag = TagTr
              THEN [p EXCEPT !.parsed_table = Append(p.parsed_table, p.current_row),
                             !.in_row = FALSE]
              ELSE p
    IN  IF tag = TagTd
        THEN IF ~p1.cell_set
             THEN [p1 EXCEPT !.raised = "AttributeError"]
             ELSE [p1 EXCEPT !.rows[p1.current_row] =
                                 Append(p1.rows[p1.current_row], p1.current_cell),
                             !.in_cell = FALSE]
        ELSE IF p1.in_row /\ p1.in_cell
             THEN [p1 EXCEPT !.current_cell = p1.current_cell \o <<" ">>]
             ELSE p1

handle_data(p, data) ==
    IF p.in_row /\ p.in_cell
    THEN [p EXCEPT !.current_cell = p.current_cell \o data]
    ELSE p

\* One handler call of the parser.
HandleToken(p, tok) ==
    IF p.raised # "none" THEN p
    ELSE IF tok.kind = "start" THEN handle_starttag(p, tok.v)
    ELSE IF tok.kind = "end" THEN handle_endtag(p, tok.v)
    ELSE handle_data(p, tok.v)

RECURSIVE FeedTokens(_, _)
FeedTokens(p, toks) ==
    IF toks = <<>> THEN p ELSE FeedTokens(HandleToken(p, Head(toks)), Tail(toks))

\* return_results(): the rows parsed_table refers to.
return_results(p) == [i \in 1..Len(p.parsed_table) |-> p.rows[p.parsed_table[i]]]

OpenTable == Chars("<table")

CloseTable == Chars("</table")

\* The index at which the backward scan  while "<table" not in
\* contents[current_line]: current_line -= 1  stops: the index of a line
\* holding the opening tag (negative indexes wrap around as Python's do), or
\* the index outside the list whose read raises IndexError.
RECURSIVE ScanBack(_, _)
ScanBack(contents, current_line) ==
    IF ~InRange(contents, current_line) THEN current_line
    ELSE IF Contains(At(contents, current_line), OpenTable) THEN current_line
    ELSE ScanBack(contents, current_line - 1)

\* What parse_html_table returns once the parser p has been fed.
TableResult(p) ==
    [raised |-> p.raised,
     table  |-> IF p.raised = "none" THEN return_results(p) ELSE <<>>]

\* table_list = contents[current_line : table_end_line + 2]
table_list(contents, current_line, table_end_line) ==
    Slice(contents, current_line, table_end_line + 2)

\* parse_html_table once the backward scan has stopped at current_line.
ParseTableFrom(contents, current_line, table_end_line) ==
    IF ~InRange(contents, current_line)
    THEN [raised |-> "IndexError", table |-> <<>>]
    ELSE TableResult(
             FeedTokens(NewTableParser,
                        Tokenize(Concat(table_list(contents, current_line,
                                                   table_end_line)), 1)))

parse_html_table(contents, table_end_line) ==
    ParseTableFrom(contents, ScanBack(contents, table_end_line + 1), table_end_line)

(***************************************************************************)
(* datetime.strptime(line, "%B %d, %Y")                                     *)
(***************************************************************************)

MonthNames ==
    <<Chars("january"), Chars("february"), Chars("march"), Chars("april"),
      Chars("may"), Chars("june"), Chars("july"), Chars("august"),
      Chars("september"), Chars("october"), Chars("november"), Chars("december")>>

IsLeap(y) == (y % 4 = 0 /\ y % 100 # 0) \/ y % 400 = 0

DaysInMonth(y, m) ==
    IF m = 2 THEN (IF IsLeap(y) THEN 29 ELSE 28)
    ELSE IF m \in {4, 6, 9, 11} THEN 30 ELSE 31

\* The first position at or after i of s that holds no whitespace.
RECURSIVE SkipSpace(_, _)
SkipSpace(s, i) ==
    IF i <= Len(s) /\ s[i] \in Whitespace THEN SkipSpace(s, i + 1) ELSE i

NoDate == [ok |-> FALSE, y |-> 0, m |-> 0, d |-> 0]

\* strptime with the format "%B %d, %Y": a month name (any case), white
\* space, a day of one or two digits, a comma, white space, a year of four
\* digits, and nothing else; the date must exist.  ok = FALSE is ValueError.
ParseLongDate(line) ==
    LET low    == Lower(line)
        months == {m \in 1..12 : StartsWithAt(low, MonthNames[m], 1)}
    IN  IF months = {} THEN NoDate
        ELSE
        LET m   == CHOOSE x \in months : TRUE
            i1  == Len(MonthNames[m]) + 1
            i2  == SkipSpace(line, i1)
            two == /\ i2 + 1 <= Len(line)
                   /\ IsDigit(line[i2]) /\ IsDigit(line[i2 + 1])
                   /\ DigitValue(line[i2]) * 10 + DigitValue(line[i2 + 1]) \in 1..31
            one == i2 <= Len(line) /\ IsDigit(line[i2]) /\ DigitValue(line[i2]) \in 1..9
            d   == IF two THEN DigitValue(line[i2]) * 10 + DigitValue(line[i2 + 1])
                   ELSE IF one THEN DigitValue(line[i2]) ELSE 0
            i3  == IF two THEN i2 + 2 ELSE i2 + 1
            i4  == SkipSpace(line, i3 + 1)
            yok == /\ i4 + 3 = Len(line)
                   /\ \A k \in i4..(i4 + 3) : IsDigit(line[k])
            y   == IF yok
                   THEN DigitValue(line[i4]) * 1000 + DigitValue(line[i4 + 1]) * 100
                        + DigitValue(line[i4 + 2]) * 10 + DigitValue(line[i4 + 3])
                   ELSE 0
        IN  IF /\ i2 > i1
               /\ (two \/ one)
               /\ i3 <= Len(line) /\ line[i3] = ","
               /\ i4 > i3 + 1
               /\ yok
               /\ y >= 1
               /\ d <= DaysInMonth(y, m)
            THEN [ok |-> TRUE, y |-> y, m |-> m, d |-> d]
            ELSE NoDate

(***************************************************************************)
(* revision_history_to_revisions                                            *)
(***************************************************************************)

\* One row of the loop: row[0], the date of row[1] (a row whose date does not
\* parse is skipped), row[2].  Reading a cell the row does not have raises
\* IndexError.
RevisionOfRow(row, date, acc) ==
    IF Len(row) < 2 THEN [raised |-> "IndexError", revisions |-> acc]
    ELSE IF ~date.ok THEN [raised |-> "none", revisions |-> acc]
    ELSE IF Len(row) < 3 THEN [raised |-> "IndexError", revisions |-> acc]
    ELSE [raised    |-> "none",
          revisions |-> Append(acc, [version   |-> row[1],
                                     published |-> date,
                                     remarks   |-> row[3]])]

\* The loop over revisions[1:], from row k (1-based) on; acc holds the
\* records collected so far.
RECURSIVE RevisionRows(_, _, _)
RevisionRows(rows, k, acc) ==
    IF k > Len(rows) \/ acc.raised # "none" THEN acc
    ELSE RevisionRows(rows, k + 1,
             RevisionOfRow(rows[k],
                           ParseLongDate(IF Len(rows[k]) < 2 THEN <<>> ELSE rows[k][2]),
                           acc.revisions))

revision_history_to_revisions(revisions) ==
    RevisionRows(revisions, 2, [raised |-> "none", revisions |-> <<>>])

(***************************************************************************)
(* section_to_control                                                       *)
(***************************************************************************)

\* table_end_line=section_line_number (line 240), section_line_number being
\* the index in section_contents[1:].
control_table_end_line(section_line_number) == section_line_number

\* The StatementPart objects made from the rows of a table, numbered from
\* part_num on.
TableParts(stmt_id, rows, part_num) ==
    [i \in 1..Len(rows) |->
        [id    |-> stmt_id \o <<"-">> \o Str(part_num + i - 1),
         name  |-> "statement",
         prose |-> <<"|">> \o Join(<<"|">>, rows[i]) \o <<"|">>]]

\* The closing-tag branch, given the table t that parse_html_table returned.
ControlTable(stmt_id, st, t) ==
    IF t.raised # "none" THEN [st EXCEPT !.raised = t.raised]
    ELSE [st EXCEPT !.in_table = FALSE,
                    !.parts = st.parts \o TableParts(stmt_id, t.table, st.part_num),
                    !.part_num = st.part_num + Len(t.table)]

\* One iteration of the loop over enumerate(section_contents[1:]):
\* section_line_number n is 0-based; st holds parts, part_num and in_table.
ControlLine(section_contents, stmt_id, n, st) ==
    IF Contains(section_contents[n + 2], OpenTable)
    THEN [st EXCEPT !.in_table = TRUE]
    ELSE IF Contains(section_contents[n + 2], CloseTable)
    THEN ControlTable(stmt_id, st,
                      parse_html_table(section_contents, control_table_end_line(n)))
    ELSE IF st.in_table THEN st
    ELSE IF section_contents[n + 2][1] = "<" THEN st
    ELSE [st EXCEPT !.parts = Append(st.parts,
                        [id    |-> stmt_id \o <<"-">> \o Str(st.part_num),
                         name  |-> "statement",
                         prose |-> strip_html_from_text(section_contents[n + 2])]),
                    !.part_num = st.part_num + 1]

RECURSIVE ControlLines(_, _, _, _)
ControlLines(section_contents, stmt_id, n, st) ==
    IF n + 2 > Len(section_contents) \/ st.raised # "none" THEN st
    ELSE ControlLines(section_contents, stmt_id, n + 1,
                      ControlLine(section_contents, stmt_id, n, st))

\* The title of a section: its header without hashes, surrounding white
\* space and markup.
SectionTitle(section_contents) ==
    strip_html_from_text(Strip(RemoveHashes(section_contents[1])))

\* The Control object, given the state st the loop ended in.
ControlOf(control_id, control_title, st) ==
    [raised |-> st.raised, id |-> control_id, title |-> control_title,
     parts |-> st.parts]

\* The loop of section_to_control for a control named control_id.
ControlParts(control_id, section_contents) ==
    ControlLines(section_contents,
                 ReplaceAll(control_id, Chars("ctrl"), Chars("stmt")), 0,
                 [parts |-> <<>>, part_num |-> 1, in_table |-> FALSE,
                  raised |-> "none"])

ControlWithId(control_id, section_contents) ==
    ControlOf(control_id, SectionTitle(section_contents),
              ControlParts(control_id, section_contents))

section_to_control(section_number, section_contents) ==
    ControlWithId(Chars("ctrl-") \o section_number \o <<"-">>
                      \o title_to_id(SectionTitle(section_contents)),
                  section_contents)

(***************************************************************************)
(* parse_metadata                                                           *)
(***************************************************************************)

TocTitle == Chars("Table of Contents")

VersionWord == Chars("Version ")

StructuralMarkers == {"*", "<", "[", "("}

NewMetadataScan ==
    [version   |-> <<>>,
     published |-> NoDate,
     revisions |-> <<>>,
     has_revisions |-> FALSE,
     in_table  |-> FALSE,
     in_toc    |-> FALSE,
     toc_lines |-> <<>>,
     raised    |-> "none"]

\* parse_html_table(introduction, line_number) (line 290): the index of the
\* closing tag's line itself.
metadata_table_end_line(line_number) == line_number

\* The closing-tag branch once the revision table has been converted.
MetadataRevisions(st, r) ==
    IF r.raised # "none" THEN [st EXCEPT !.in_table = FALSE, !.raised = r.raised]
    ELSE [st EXCEPT !.in_table = FALSE,
                    !.revisions = r.revisions,
                    !.has_revisions = TRUE]

\* The closing-tag branch, given the table t that parse_html_table returned.
MetadataTable(st, t) ==
    IF t.raised # "none" THEN [st EXCEPT !.in_table = FALSE, !.raised = t.raised]
    ELSE MetadataRevisions(st, revision_history_to_revisions(t.table))

\* The last branch: the line is tried as a date.
MetadataDate(st, date) == IF date.ok THEN [st EXCEPT !.published = date] ELSE st

\* One iteration of the loop over enumerate(introduction): line_number is
\* 0-based.
MetadataLine(introduction, line_number, st, line) ==
    IF line = <<>> THEN st
    ELSE IF Contains(line, OpenTable) THEN [st EXCEPT !.in_table = TRUE]
    ELSE IF Contains(line, CloseTable)
    THEN MetadataTable(st, parse_html_table(introduction,
                                            metadata_table_end_line(line_number)))
    ELSE IF st.in_table THEN st
    ELSE IF Contains(line, TocTitle) THEN [st EXCEPT !.in_toc = TRUE]
    ELSE IF line[1] = "[" /\ st.in_toc
    THEN [st EXCEPT !.toc_lines = Append(st.toc_lines, line)]
    ELSE IF Contains(line, VersionWord)
    THEN [st EXCEPT !.version = RemoveAll(line, VersionWord)]
    ELSE IF line[1] \in StructuralMarkers /\ ~st.in_toc THEN st
    ELSE MetadataDate(st, ParseLongDate(line))

RECURSIVE MetadataLines(_, _, _)
MetadataLines(introduction, line_number, st) ==
    IF line_number >= Len(introduction) \/ st.raised # "none" THEN st
    ELSE MetadataLines(introduction, line_number + 1,
                       MetadataLine(introduction, line_number, st,
                                    introduction[line_number + 1]))

\* Lines 319-328: both the version and the publication date are required;
\* raised = "ValueError" is the error "Introduction is missing Version and/or
\* Publication Date."
MetadataOf(st) ==
    IF st.raised # "none" THEN st
    ELSE IF st.version = <<>> \/ ~st.published.ok
    THEN [st EXCEPT !.raised = "ValueError"]
    ELSE st

parse_metadata(introduction) == MetadataOf(MetadataLines(introduction, 0, NewMetadataScan))

(***************************************************************************)
(* parse_backmatter                                                         *)
(***************************************************************************)

\* table_end_line=index-1 (line 339).
backmatter_table_end_line(index) == index - 1

\* The loop that looks for closing table tags: every one found replaces
\* resource_table with the table parsed at index - 1.
RECURSIVE BackmatterTables(_, _, _)
BackmatterTables(contents, index, acc) ==
    IF index >= Len(contents) \/ acc.raised # "none" THEN acc
    ELSE IF Contains(contents[index + 1], CloseTable)
    THEN BackmatterTables(contents, index + 1,
                          parse_html_table(contents, backmatter_table_end_line(index)))
    ELSE BackmatterTables(contents, index + 1, acc)

HttpWord == Chars("http")

\* resource_re = ^(?P<name>.*)\s*(?P<url>http.*)\s*$ : name is greedy, so the
\* url starts at the last "http" of the text.
ResourceMatch(text) ==
    LET at == {i \in 1..(Len(text) - 3) : StartsWithAt(text, HttpWord, i)}
    IN  IF at = {} THEN [matched |-> FALSE, name |-> <<>>, url |-> <<>>]
        ELSE [matched |-> TRUE,
              name    |-> SubSeq(text, 1, Max(at) - 1),
              url     |-> SubSeq(text, Max(at), Len(text))]

RECURSIVE ResourceRows(_, _, _)
ResourceRows(resource_table, k, acc) ==
    IF k > Len(resource_table) THEN [raised |-> "none", resources |-> acc]
    ELSE LET resource == resource_table[k]
         IN  IF Len(resource) < 2 THEN [raised |-> "IndexError", resources |-> acc]
             ELSE IF ~ResourceMatch(resource[2]).matched
             THEN ResourceRows(resource_table, k + 1, acc)
             ELSE ResourceRows(resource_table, k + 1,
                      Append(acc, [title       |-> resource[1],
                                   description |-> ResourceMatch(resource[2]).name,
                                   href        |-> ResourceMatch(resource[2]).url]))

\* Lines 341-366: the resources of the rows of resource_table.
ResourcesOf(t) ==
    IF t.raised # "none" THEN [raised |-> t.raised, resources |-> <<>>]
    ELSE ResourceRows(t.table, 1, <<>>)

parse_backmatter(contents) ==
    ResourcesOf(BackmatterTables(contents, 0, [raised |-> "none", table |-> <<>>]))

(***************************************************************************)
(* The outline counters toc_pos and section_to_group.                       *)
(***************************************************************************)

\* len(toc_pos): the list is built by range(1, 10).
TocLen == 9

\* toc_pos as the module sets it when it is loaded.
InitialTocPos == [i \in 1..TocLen |-> IF i = 1 THEN 1 ELSE 0]

\* [str(x) for x in toc_pos][:section_depth], as numbers.
SecNumSegments(toc, section_depth) ==
    SubSeq(toc, 1, IF section_depth > Len(toc) THEN Len(toc) ELSE section_depth)

\* A numbering that forgets the depth: the first counter alone.
sec_num_first_counter(toc, section_depth) == Str(toc[1])

\* sec_num = ".".join([str(x) for x in toc_pos][:section_depth])
sec_num(toc, section_depth) ==
    Join(<<".">>, [i \in 1..Len(SecNumSegments(toc, section_depth)) |->
                      Str(SecNumSegments(toc, section_depth)[i])])

\* The counters advanced without the deeper ones being set to zero.
advance_without_reset(toc, section_depth) ==
    [toc EXCEPT ![section_depth] = @ + 1]

\* toc_pos[section_depth - 1] += 1, then toc_pos[section_depth:] = zeros
\* (for a section_depth of 1..9; a deeper header raises IndexError instead).
advance_toc_pos(toc, section_depth) ==
    [i \in 1..Len(toc) |->
        IF i < section_depth THEN toc[i]
        ELSE IF i = section_depth THEN toc[i] + 1
        ELSE 0]

\* A catalog.Group object: groups holds arena indexes (empty for None).
NewGroup(id, title) ==
    [id |-> id, title |-> title, groups |-> <<>>, controls |-> <<>>]

NoGroup ==
    [raised |-> "none", is_none |-> TRUE, has_controls |-> FALSE,
     group |-> NewGroup(<<>>, <<>>), control_group |-> NewGroup(<<>>, <<>>)]

\* A section_to_group that makes a group of a section with a blank title too.
GroupOfAnyTitle(num, group_title, group_id, has_contents, control) ==
    IF ~has_contents
    THEN [NoGroup EXCEPT !.is_none = FALSE,
                         !.group = NewGroup(group_id, num \o <<" ">> \o group_title)]
    ELSE [NoGroup EXCEPT !.raised = control.raised, !.is_none = FALSE]

\* What section_to_group makes of a section titled group_title and numbered
\* num: nothing (is_none: a blank title), or the group, and the synthetic
\* controls group holding control when the section has lines after its header.
GroupOf(num, group_title, group_id, has_contents, control) ==
    IF group_title = <<>> THEN NoGroup
    ELSE IF ~has_contents
    THEN [NoGroup EXCEPT !.is_none = FALSE,
                         !.group = NewGroup(group_id, num \o <<" ">> \o group_title)]
    ELSE IF control.raised # "none"
    THEN [NoGroup EXCEPT !.raised = control.raised, !.is_none = FALSE]
    ELSE [raised        |-> "none",
          is_none       |-> FALSE,
          has_controls  |-> TRUE,
          group         |-> NewGroup(group_id, num \o <<" ">> \o group_title),
          control_group |->
              [NewGroup(ReplaceAll(group_id, Chars("group"), Chars("control")),
                        group_title \o Chars(" Controls"))
               EXCEPT !.controls = << [id |-> control.id, title |-> control.title,
                                       parts |-> control.parts] >>]]

\* group_id = f"group-{sec_num}-{title_to_id(group_title)}"
GroupId(num, group_title) ==
    Chars("group-") \o num \o <<"-">> \o title_to_id(group_title)

GroupNumbered(num, group_title, section_contents) ==
    GroupOf(num, group_title, GroupId(num, group_title), Len(section_contents) > 1,
            section_to_control(num, section_contents))

section_to_group(section_contents, section_depth, toc) ==
    GroupNumbered(sec_num(toc, section_depth), SectionTitle(section_contents),
                  section_contents)

\* add_subsection_to_parent on the arena h: child is appended to the child
\* list of parent.
add_subsection_to_parent(h, parent, child) ==
    [h EXCEPT ![parent].groups = Append(@, child)]

(***************************************************************************)
(* common_policy_to_catalog: the line segmenter.                            *)
(***************************************************************************)

\* The loop over common_policy from line i (1-based) on: secs is sections,
\* sec the section being collected.  The loop ends without appending the
\* section it is collecting.
RECURSIVE SegmentLines(_, _, _, _)
SegmentLines(lines, i, secs, sec) ==
    IF i > Len(lines) THEN secs
    ELSE IF Len(lines[i]) = 0 THEN SegmentLines(lines, i + 1, secs, sec)
    ELSE IF lines[i][1] = "#"
    THEN SegmentLines(lines, i + 1, Append(secs, sec), <<lines[i]>>)
    ELSE SegmentLines(lines, i + 1, secs, Append(sec, lines[i]))

(***************************************************************************)
(* common_policy_to_catalog: placing a group in the tree.                   *)
(***************************************************************************)

\* Lines 106-135: where current_group (an arena index) goes, given its
\* section_depth.  raised = "IndexError" when parent_stack[section_depth - 2]
\* is outside the stack.
PlaceGroup(stack, top, h, section_depth, current_group) ==
    IF section_depth = 1
    THEN [raised         |-> "none",
          parent_stack   |-> IF Len(stack) = 0 THEN <<current_group>>
                             ELSE [stack EXCEPT ![1] = current_group],
          section_groups |-> Append(top, current_group),
          heap           |-> h]
    ELSE IF section_depth > Len(stack)
    THEN LET pushed == Append(stack, current_group)
         IN  IF section_depth - 2 >= Len(pushed)
             THEN [raised |-> "IndexError", parent_stack |-> pushed,
                   section_groups |-> top, heap |-> h]
             ELSE [raised |-> "none", parent_stack |-> pushed,
                   section_groups |-> top,
                   heap |-> add_subsection_to_parent(h, pushed[section_depth - 1],
                                                     current_group)]
    ELSE IF section_depth = Len(stack)
    THEN LET replaced == [stack EXCEPT ![section_depth] = current_group]
         IN  [raised |-> "none", parent_stack |-> replaced, section_groups |-> top,
              heap |-> add_subsection_to_parent(h, replaced[section_depth - 1],
                                                current_group)]
    ELSE LET trimmed == [SubSeq(stack, 1, section_depth)
                            EXCEPT ![section_depth] = current_group]
         IN  [raised |-> "none", parent_stack |-> trimmed, section_groups |-> top,
              heap |-> add_subsection_to_parent(h, trimmed[section_depth - 1],
                                                current_group)]

(***************************************************************************)
(* The documents the model parses.                                          *)
(***************************************************************************)

\* The longest run of lines after the front matter of a generated document.
MaxBody == 5

\* The deepest header of a generated document.
MaxDepth == 3

\* The longest generated front matter.
MaxFront == 3

\* A header line: section_depth hashes, a space, the title.
Hdr(section_depth, title) == [i \in 1..section_depth |-> "#"] \o <<" ">> \o title

TitleA == Chars("a")

VersionLine == Chars("Version 1.0")

DateLine == Chars("May 1, 2020")

TextLine == Chars("t")

TableOpenLine == Chars("<table>")

TableCloseLine == Chars("</table>")

GoodFront == <<VersionLine, DateLine>>

SeqsUpTo(S, n) == UNION {[1..k -> S] : k \in 0..n}

\* Headers of every depth up to MaxDepth, a header with a blank title, and a
\* text line, in every order.
TreeLines == {Hdr(d, TitleA) : d \in 1..MaxDepth} \cup {Hdr(2, <<>>), TextLine}

TreeDocuments == {GoodFront \o body : body \in SeqsUpTo(TreeLines, MaxBody)}

\* Every short front matter, before two headers.
FrontLines == {VersionLine, DateLine, TableOpenLine, TableCloseLine}

FrontDocuments ==
    {front \o <<Hdr(1, TitleA), Hdr(1, TitleA)>> : front \in SeqsUpTo(FrontLines, MaxFront)}

\* The end-to-end scenario of the specification.
ScenarioDocument ==
    <<Chars("# Introduction"), Chars("Version 1.0"), Chars("January 1, 2020"),
      Chars("# Scope"), Chars("This is the scope."),
      Chars("## Applicability"), Chars("Applies broadly.")>>

StyledRow == Chars("<tr><td><b>a</b><b>b</b></td><td>x</td></tr>")

RevisionHeaderRow == Chars("<tr><td>Version</td><td>Date</td><td>Remarks</td></tr>")

RevisionRow == Chars("<tr><td>1.0</td><td>May 1, 2020</td><td>first</td></tr>")

ShortRevisionRow == Chars("<tr><td>1.0</td><td>May 1, 2020</td></tr>")

ResourceRow == Chars("<tr><td>T</td><td>D http://x</td></tr>")

NoLinkRow == Chars("<tr><td>N</td><td>no url</td></tr>")

\* Documents with tables, special headers and a blank line.
EdgeDocuments ==
    { ScenarioDocument,
      <<>>,
      GoodFront \o <<Hdr(TocLen + 1, TitleA), Hdr(1, TitleA)>>,
      GoodFront \o <<Hdr(1, TitleA), TableOpenLine, StyledRow, TableCloseLine,
                     TextLine, Hdr(1, TitleA)>>,
      GoodFront \o <<Hdr(1, TitleA), TableCloseLine, Hdr(1, TitleA)>>,
      GoodFront \o <<TableOpenLine, RevisionHeaderRow, RevisionRow, TableCloseLine,
                     TextLine, Hdr(1, TitleA), Hdr(1, TitleA)>>,
      GoodFront \o <<TableOpenLine, RevisionHeaderRow, ShortRevisionRow, TableCloseLine,
                     TextLine, Hdr(1, TitleA), Hdr(1, TitleA)>>,
      GoodFront \o <<Hdr(1, TitleA), Chars("## References"), TableOpenLine, ResourceRow,
                     NoLinkRow, TableCloseLine, Hdr(2, TitleA), Hdr(1, TitleA)>>,
      GoodFront \o <<Chars("# Table of Contents"), Chars("[1 a [x"), Hdr(1, TitleA),
                     <<>>, TextLine, Hdr(1, Chars("A b")), Hdr(1, TitleA)>>,
      <<Chars("Version "), DateLine, Hdr(1, TitleA), Hdr(1, TitleA)>>,
      GoodFront \o <<Hdr(1, TitleA), Chars("## Table of Contents"),
                     Chars("## Bibliography"), Hdr(2, <<>>), Hdr(2, TitleA),
                     Hdr(1, TitleA)>>,
      GoodFront \o <<Hdr(1, Chars("<b>a</b>")), Hdr(1, Chars("a <i>b</i> c")),
                     Chars("<p>"), Chars("x <b>y</b> z"), Hdr(1, TitleA)>> }

Documents == TreeDocuments \cup FrontDocuments \cup EdgeDocuments

(***************************************************************************)
(* The state of one run of the program.                                     *)
(***************************************************************************)

VARIABLES
    common_policy,   \* the argument of common_policy_to_catalog
    pc,              \* where the call is: "segment", "metadata", "sections", "done"
    sections,        \* the blocks the segmenter made
    metadata,        \* what parse_metadata returned
    section_index,   \* the block the loop over sections[1:] is at (1-based)
    toc_pos,         \* the module-level outline counters
    parent_stack,    \* arena indexes
    section_groups,  \* arena indexes
    heap,            \* the arena of Group objects made by this call
    backmatter,      \* what parse_backmatter returned, when it was called
    raised,          \* the exception that ended the call ("none": none)
    log,             \* per group made from a header: its arena index, depth, ordinal
    calls,           \* calls of common_policy_to_catalog completed before this one
    earlier_ids,     \* the identifiers each completed call made
    tp,              \* a TableParser fed one handler call at a time
    tp_tokens,       \* the handler calls still to make on tp
    tp_cells,        \* the table tp is fed: rows of cells of fragments
    tp_pc,           \* where that call of parse_html_table is: "scan", "feed"
    fn,              \* the helper function called on its own ("none": none)
    fn_arg,          \* the argument of that call
    fn_out           \* what the call returned, or raised

vars ==
    <<common_policy, pc, sections, metadata, section_index, toc_pos, parent_stack,
      section_groups, heap, backmatter, raised, log, calls, earlier_ids,
      tp, tp_tokens, tp_cells, tp_pc, fn, fn_arg, fn_out>>

tableVars == <<tp, tp_tokens, tp_cells, tp_pc>>

callVars == <<fn, fn_arg, fn_out>>

\* No helper function is called on its own.
NoCall == fn = "none" /\ fn_arg = <<>> /\ fn_out = <<>>

NoBackmatter == [called |-> FALSE, resources |-> <<>>]

\* The local state of a call that has just begun.
CallStart ==
    /\ pc = "segment"
    /\ sections = <<>>
    /\ metadata = NewMetadataScan
    /\ section_index = 2
    /\ parent_stack = <<>>
    /\ section_groups = <<>>
    /\ heap = <<>>
    /\ backmatter = NoBackmatter
    /\ raised = "none"
    /\ log = <<>>

Init ==
    /\ common_policy \in Documents
    /\ CallStart
    /\ toc_pos = InitialTocPos
    /\ calls = 0
    /\ earlier_ids = <<>>
    /\ tp = NewTableParser
    /\ tp_tokens = <<>>
    /\ tp_cells = <<>>
    /\ tp_pc = "scan"
    /\ NoCall

(***************************************************************************)
(* common_policy_to_catalog, step by step.                                  *)
(***************************************************************************)

\* Lines 38-54: the whole segmenting loop.
Segment ==
    /\ pc = "segment"
    /\ sections' = SegmentLines(common_policy, 1, <<>>, <<>>)
    /\ pc' = "metadata"
    /\ UNCHANGED <<common_policy, metadata, section_index, toc_pos, parent_stack,
                   section_groups, heap, backmatter, raised, log, calls, earlier_ids,
                   tableVars, callVars>>

\* The call after parse_metadata returned or raised.
MetadataStep(m) ==
    /\ metadata' = m
    /\ raised' = m.raised
    /\ pc' = IF m.raised = "none" THEN "sections" ELSE "done"

\* Line 60: metadata = parse_metadata(sections[0]).  Reading sections[0] of
\* an empty list raises IndexError.
Metadata ==
    /\ pc = "metadata"
    /\ MetadataStep(IF Len(sections) = 0
                    THEN [NewMetadataScan EXCEPT !.raised = "IndexError"]
                    ELSE parse_metadata(sections[1]))
    /\ UNCHANGED <<common_policy, sections, section_index, toc_pos, parent_stack,
                   section_groups, heap, backmatter, log, calls, earlier_ids,
                   tableVars, callVars>>

InSections == pc = "sections" /\ section_index <= Len(sections)

ReferencesTitle == Chars("References")

BibliographyTitle == Chars("Bibliography")

IsTocSection(section) == Contains(section[1], TocTitle)

IsReferencesSection(section) ==
    /\ ~IsTocSection(section)
    /\ Contains(section[1], ReferencesTitle) \/ Contains(section[1], BibliographyTitle)

\* Lines 75-77: a section whose header holds "Table of Contents" is skipped.
TableOfContentsSection ==
    /\ InSections
    /\ IsTocSection(sections[section_index])
    /\ section_index' = section_index + 1
    /\ UNCHANGED <<common_policy, pc, sections, metadata, toc_pos, parent_stack,
                   section_groups, heap, backmatter, raised, log, calls, earlier_ids,
                   tableVars, callVars>>

\* The call after parse_backmatter returned or raised.
ReferencesStep(b) ==
    IF b.raised # "none"
    THEN /\ raised' = b.raised
         /\ pc' = "done"
         /\ UNCHANGED <<backmatter, section_index>>
    ELSE /\ backmatter' = [called |-> TRUE, resources |-> b.resources]
         /\ section_index' = section_index + 1
         /\ UNCHANGED <<raised, pc>>

\* Lines 79-82: the lines after a References or Bibliography header go to
\* parse_backmatter.
ReferencesSection ==
    /\ InSections
    /\ IsReferencesSection(sections[section_index])
    /\ ReferencesStep(parse_backmatter(Tail(sections[section_index])))
    /\ UNCHANGED <<common_policy, sections, metadata, toc_pos, parent_stack,
                   section_groups, heap, log, calls, earlier_ids, tableVars, callVars>>

\* The arena after the objects section_to_group returned are added to it:
\* the group, then its synthetic controls group, which is its first child.
WithGroup(h, made) ==
    IF made.has_controls
    THEN h \o <<[made.group EXCEPT !.groups = <<Len(h) + 2>>], made.control_group>>
    ELSE Append(h, made.group)

\* The record kept of a group made from a header.
LogEntry(section_depth) ==
    [group   |-> Len(heap) + 1,
     depth   |-> section_depth,
     ordinal |-> SecNumSegments(toc_pos, section_depth),
     section |-> section_index]

\* Lines 106-135, given where PlaceGroup put the group.
PlacedStep(placed) ==
    /\ parent_stack' = placed.parent_stack
    /\ section_groups' = placed.section_groups
    /\ heap' = placed.heap
    /\ raised' = placed.raised
    /\ IF placed.raised = "none"
       THEN section_index' = section_index + 1 /\ pc' = pc
       ELSE section_index' = section_index /\ pc' = "done"

\* Lines 87-137, given what section_to_group made of the section.  A header
\* with no hashes raises "Section does not have a title"; a blank title is
\* skipped; otherwise the counters advance (a depth beyond the counters
\* raises IndexError) and the group is placed.
GroupStep(section_depth, made) ==
    IF section_depth = 0
    THEN /\ raised' = "Exception"
         /\ pc' = "done"
         /\ UNCHANGED <<section_index, toc_pos, parent_stack, section_groups, heap,
                        log>>
    ELSE IF made.raised # "none"
    THEN /\ raised' = made.raised
         /\ pc' = "done"
         /\ UNCHANGED <<section_index, toc_pos, parent_stack, section_groups, heap,
                        log>>
    ELSE IF made.is_none
    THEN /\ section_index' = section_index + 1
         /\ UNCHANGED <<raised, pc, toc_pos, parent_stack, section_groups, heap, log>>
    ELSE IF section_depth > Len(toc_pos)
    THEN /\ raised' = "IndexError"
         /\ pc' = "done"
         /\ heap' = WithGroup(heap, made)
         /\ log' = Append(log, LogEntry(section_depth))
         /\ UNCHANGED <<section_index, toc_pos, parent_stack, section_groups>>
    ELSE /\ toc_pos' = advance_toc_pos(toc_pos, section_depth)
         /\ log' = Append(log, LogEntry(section_depth))
         /\ PlacedStep(PlaceGroup(parent_stack, section_groups, WithGroup(heap, made),
                                  section_depth, Len(heap) + 1))

\* Lines 84-137: every other section.
GroupSection ==
    /\ InSections
    /\ ~IsTocSection(sections[section_index])
    /\ ~IsReferencesSection(sections[section_index])
    /\ GroupStep(LeadingHashes(sections[section_index][1]),
                 section_to_group(sections[section_index],
                                  LeadingHashes(sections[section_index][1]), toc_pos))
    /\ UNCHANGED <<common_policy, sections, metadata, backmatter, calls, earlier_ids,
                   tableVars, callVars>>

\* Lines 140-151: an empty back matter when there was no References section,
\* and the document is returned.
Assemble ==
    /\ pc = "sections"
    /\ section_index > Len(sections)
    /\ backmatter' = IF backmatter.called THEN backmatter
                     ELSE [called |-> TRUE, resources |-> parse_backmatter(<<>>).resources]
    /\ pc' = "done"
    /\ UNCHANGED <<common_policy, sections, metadata, section_index, toc_pos,
                   parent_stack, section_groups, heap, raised, log, calls, earlier_ids,
                   tableVars, callVars>>

Next ==
    \/ Segment
    \/ Metadata
    \/ TableOfContentsSection
    \/ ReferencesSection
    \/ GroupSection
    \/ Assemble

\* One run of the program on one document.
Spec == Init /\ [][Next]_vars

(***************************************************************************)
(* The module reused: common_policy_to_catalog called again in the same     *)
(* process, on the same document.  toc_pos is a module-level list (lines    *)
(* 25-27) that no call resets; everything else is local to a call.          *)
(***************************************************************************)

\* The calls made on one document.
MaxCalls == 2

\* The identifiers of the Group and Control objects in the arena h, in the
\* order the objects were made.
RECURSIVE Identifiers(_)
Identifiers(h) ==
    IF h = <<>> THEN <<>>
    ELSE Identifiers(SubSeq(h, 1, Len(h) - 1))
         \o <<h[Len(h)].id>>
         \o [j \in 1..Len(h[Len(h)].controls) |-> h[Len(h)].controls[j].id]

CallAgain ==
    /\ pc = "done"
    /\ calls + 1 < MaxCalls
    /\ calls' = calls + 1
    /\ earlier_ids' = Append(earlier_ids, Identifiers(heap))
    /\ pc' = "segment"
    /\ sections' = <<>>
    /\ metadata' = NewMetadataScan
    /\ section_index' = 2
    /\ parent_stack' = <<>>
    /\ section_groups' = <<>>
    /\ heap' = <<>>
    /\ backmatter' = NoBackmatter
    /\ raised' = "none"
    /\ log' = <<>>
    /\ UNCHANGED <<common_policy, toc_pos, tableVars, callVars>>

ReuseNext == Next \/ CallAgain

ReuseSpec == Init /\ [][ReuseNext]_vars

(***************************************************************************)
(* parse_html_table on a well-formed table, one handler call at a time.     *)
(***************************************************************************)

\* The most rows, and the most cells of a row, of a generated table.
MaxRows == 2

MaxCells == 2

\* A cell is a sequence of fragments: text, plain or inside an inline tag.
PlainX == [styled |-> FALSE, text |-> Chars("x")]

StyledA == [styled |-> TRUE, text |-> Chars("a")]

StyledB == [styled |-> TRUE, text |-> Chars("b")]

CellChoices == {<<PlainX>>, <<StyledA>>, <<StyledA, StyledB>>}

FragmentMarkup(f) ==
    IF f.styled THEN Chars("<b>") \o f.text \o Chars("</b>") ELSE f.text

CellMarkup(cell) ==
    Chars("<td>") \o Concat([k \in 1..Len(cell) |-> FragmentMarkup(cell[k])])
    \o Chars("</td>")

\* A row of the table as one line of markup.
RowMarkup(row) ==
    Chars("<tr>") \o Concat([k \in 1..Len(row) |-> CellMarkup(row[k])])
    \o Chars("</tr>")

\* The lines of the table: the opening tag, a line per row, the closing tag.
TableLines(cells) ==
    <<TableOpenLine>> \o [k \in 1..Len(cells) |-> RowMarkup(cells[k])]
    \o <<TableCloseLine>>

Tables ==
    UNION {[1..n -> [1..m -> CellChoices]] : n \in 1..MaxRows, m \in 1..MaxCells}

\* A call of parse_html_table(TableLines(cells), table_end_line) about to be
\* made, table_end_line being the index before the closing tag's.
TableInit ==
    /\ tp_cells \in Tables
    /\ tp = NewTableParser
    /\ tp_tokens = <<>>
    /\ tp_pc = "scan"
    /\ common_policy = <<>>
    /\ CallStart
    /\ toc_pos = InitialTocPos
    /\ calls = 0
    /\ earlier_ids = <<>>
    /\ NoCall

mainVars ==
    <<common_policy, pc, sections, metadata, section_index, toc_pos, parent_stack,
      section_groups, heap, backmatter, raised, log, calls, earlier_ids>>

\* Lines 395-401 and 443: the backward scan, the slice, and the text handed
\* to feed().
ScanTable ==
    /\ tp_pc = "scan"
    /\ tp_tokens' =
          Tokenize(Concat(table_list(TableLines(tp_cells),
                                     ScanBack(TableLines(tp_cells),
                                              Len(TableLines(tp_cells)) - 1),
                                     Len(TableLines(tp_cells)) - 2)), 1)
    /\ tp_pc' = "feed"
    /\ UNCHANGED <<tp, tp_cells, mainVars, callVars>>

FeedStartTag ==
    /\ tp_pc = "feed"
    /\ tp_tokens # <<>>
    /\ tp.raised = "none"
    /\ Head(tp_tokens).kind = "start"
    /\ tp' = handle_starttag(tp, Head(tp_tokens).v)
    /\ tp_tokens' = Tail(tp_tokens)
    /\ UNCHANGED <<tp_cells, tp_pc, mainVars, callVars>>

FeedEndTag ==
    /\ tp_pc = "feed"
    /\ tp_tokens # <<>>
    /\ tp.raised = "none"
    /\ Head(tp_tokens).kind = "end"
    /\ tp' = handle_endtag(tp, Head(tp_tokens).v)
    /\ tp_tokens' = Tail(tp_tokens)
    /\ UNCHANGED <<tp_cells, tp_pc, mainVars, callVars>>

FeedData ==
    /\ tp_pc = "feed"
    /\ tp_tokens # <<>>
    /\ tp.raised = "none"
    /\ Head(tp_tokens).kind = "data"
    /\ tp' = handle_data(tp, Head(tp_tokens).v)
    /\ tp_tokens' = Tail(tp_tokens)
    /\ UNCHANGED <<tp_cells, tp_pc, mainVars, callVars>>

TableNext == ScanTable \/ FeedStartTag \/ FeedEndTag \/ FeedData

TableSpec == TableInit /\ [][TableNext]_vars

(***************************************************************************)
(* The helper functions called on their own, each on arguments drawn from   *)
(* a small set.                                                             *)
(***************************************************************************)

\* The most data rows of a generated references table.
MaxDataRows == 2

\* Rows of a references table: the title cell and the cell that may hold a
\* link.
PlainHeaderRow == <<Chars("Title"), Chars("Link")>>

LinkHeaderRow == <<Chars("Title"), Chars("Link (http)")>>

LinkedRow == <<Chars("T"), Chars("D http://x")>>

UnlinkedRow == <<Chars("N"), Chars("no url")>>

TwoLinksRow == <<Chars("U"), Chars("D http://a?u=http://b")>>

\* A references table: a header row, then data rows.
ReferenceTables ==
    {<<header>> \o data :
        header \in {PlainHeaderRow, LinkHeaderRow},
        data \in SeqsUpTo({LinkedRow, UnlinkedRow, TwoLinksRow}, MaxDataRows)}

\* The lines after the header of a References section holding the table rows.
ReferenceLines(rows) ==
    <<TableOpenLine>>
    \o [k \in 1..Len(rows) |->
           Chars("<tr>")
           \o Concat([c \in 1..Len(rows[k]) |->
                         Chars("<td>") \o rows[k][c] \o Chars("</td>")])
           \o Chars("</tr>")]
    \o <<TableCloseLine>>

\* A table of one row, and another.
TableX == <<TableOpenLine, Chars("<tr><td>x</td></tr>"), TableCloseLine>>

TableY == <<TableOpenLine, Chars("<tr><td>y</td></tr>"), TableCloseLine>>

\* Blocks with a table at every position: first, last, between text lines,
\* before or after another table.
TableBlocks ==
    {before \o TableX \o after :
        before \in {<<>>, <<TextLine>>, TableY, TableY \o <<TextLine>>},
        after \in {<<>>, <<TextLine>>, TableY, <<TextLine>> \o TableY}}

\* The three functions that call parse_html_table at a closing tag.
TableCallers == {"section_to_control", "parse_metadata", "parse_backmatter"}

\* The list a caller hands to parse_html_table for a block: section_to_control
\* the whole section, header line first; the others the block.
CallerContents(caller, block) ==
    IF caller = "section_to_control" THEN <<Hdr(1, TitleA)>> \o block ELSE block

\* The table_end_line a caller passes at the closing tag found at index
\* close (0-based) of the list it loops over.
CallerTableEnd(caller, close) ==
    IF caller = "section_to_control" THEN control_table_end_line(close)
    ELSE IF caller = "parse_metadata" THEN metadata_table_end_line(close)
    ELSE backmatter_table_end_line(close)

\* A caller, a block, and a closing tag of the block (0-based index).
TableCalls ==
    UNION {{[caller |-> c, block |-> b, close |-> k] :
               c \in TableCallers,
               k \in {n \in 0..(Len(b) - 1) : Contains(b[n + 1], CloseTable)}} :
           b \in TableBlocks}

\* The longest front matter parse_metadata is called on.
MaxIntroduction == 3

LaterVersionLine == Chars("Version 2.0")

LaterDateLine == Chars("May 2, 2020")

\* Front matters with up to two different version lines and date lines.
Introductions ==
    SeqsUpTo({VersionLine, LaterVersionLine, DateLine, LaterDateLine},
             MaxIntroduction)

\* The longest line strip_html_from_text is called on.
MaxMarkup == 5

\* Lines of text and angle brackets.
MarkupLines == SeqsUpTo({"a", "b", "<", ">"}, MaxMarkup)

\* The longest generated title.
MaxTitle == 3

\* Titles of letters, spaces, tabs, hyphens and a character title_to_id
\* removes.
TitleChars == {"a", "A", " ", "\t", "-", "("}

Titles == SeqsUpTo(TitleChars, MaxTitle)

\* The arguments each helper function is called on.
CallArguments(f) ==
    IF f = "parse_backmatter" THEN ReferenceTables
    ELSE IF f = "title_to_id" THEN Titles
    ELSE IF f = "strip_html_from_text" THEN MarkupLines
    ELSE IF f = "parse_metadata" THEN Introductions
    ELSE IF f = "parse_html_table" THEN TableCalls
    ELSE {}

CallNames == {"parse_backmatter", "title_to_id", "parse_html_table", "parse_metadata",
              "strip_html_from_text"}

CallInit ==
    /\ common_policy = <<>>
    /\ CallStart
    /\ toc_pos = InitialTocPos
    /\ calls = 0
    /\ earlier_ids = <<>>
    /\ tp = NewTableParser
    /\ tp_tokens = <<>>
    /\ tp_cells = <<>>
    /\ tp_pc = "scan"
    /\ fn \in CallNames
    /\ fn_arg \in CallArguments(fn)
    /\ fn_out = <<>>

\* The call returns (or raises): its result is recorded.
Returns(result) ==
    /\ fn_out' = Append(fn_out, result)
    /\ UNCHANGED <<fn, fn_arg, mainVars, tableVars>>

\* parse_backmatter(section[1:]) on the lines of a references table.
CallParseBackmatter ==
    /\ fn = "parse_backmatter"
    /\ fn_out = <<>>
    /\ Returns(parse_backmatter(ReferenceLines(fn_arg)))

\* title_to_id(title), and then title_to_id of what it returned.
CallTitleToId ==
    /\ fn = "title_to_id"
    /\ Len(fn_out) < 2
    /\ Returns(title_to_id(IF fn_out = <<>> THEN fn_arg ELSE fn_out[1]))

\* Lines 395-401 of parse_html_table(contents, table_end_line): where the
\* backward scan starts and stops, and the slice (none when the scan leaves
\* the list: IndexError).
TableScan(contents, table_end_line) ==
    [start  |-> table_end_line + 1,
     inside |-> InRange(contents, table_end_line + 1),
     raised |-> IF InRange(contents, ScanBack(contents, table_end_line + 1))
                THEN "none" ELSE "IndexError",
     slice  |-> IF InRange(contents, ScanBack(contents, table_end_line + 1))
                THEN table_list(contents, ScanBack(contents, table_end_line + 1),
                                table_end_line)
                ELSE <<>>]

\* One of the callers reaches a closing tag and calls parse_html_table.
CallParseHtmlTable ==
    /\ fn = "parse_html_table"
    /\ fn_out = <<>>
    /\ Returns(TableScan(CallerContents(fn_arg.caller, fn_arg.block),
                         CallerTableEnd(fn_arg.caller, fn_arg.close)))

\* parse_metadata(sections[0]) on a front matter.
CallParseMetadata ==
    /\ fn = "parse_metadata"
    /\ fn_out = <<>>
    /\ Returns(parse_metadata(fn_arg))

\* strip_html_from_text(input) on a line.
CallStripHtml ==
    /\ fn = "strip_html_from_text"
    /\ fn_out = <<>>
    /\ Returns(strip_html_from_text(fn_arg))

CallNext ==
    \/ CallParseBackmatter
    \/ CallStripHtml
    \/ CallParseMetadata
    \/ CallParseHtmlTable
    \/ CallTitleToId

CallSpec == CallInit /\ [][CallNext]_vars

(***************************************************************************)
(* Properties.                                                              *)
(***************************************************************************)

Distinct(seq) == \A i, j \in 1..Len(seq) : i # j => seq[i] # seq[j]

\* The parse has returned a document.
Returned == pc = "done" /\ raised = "none"

\* The arena index of the synthetic controls group of the group at g (0 when
\* the group has none).
ControlsGroup(g) ==
    IF heap[g].groups # <<>> /\ heap[heap[g].groups[1]].controls # <<>>
    THEN heap[g].groups[1] ELSE 0

\* C1: at every moment of a call, the identifiers of the groups, of the
\* synthetic controls groups and of the controls made so far by that call
\* are pairwise distinct.
C1_IdentifiersDistinct == Distinct(Identifiers(heap))

\* A document has been parsed in which two headers of equal depth and title
\* each got a group, the first with a synthetic controls group and a control,
\* and a third group lies below them.
C1_RepeatedTitles ==
    /\ Returned
    /\ \E i, j, k \in 1..Len(log) :
          /\ i < j
          /\ sections[log[i].section][1] = sections[log[j].section][1]
          /\ ControlsGroup(log[i].group) # 0
          /\ log[k].depth > log[i].depth

\* The depths of the headers of the blocks the tree builder is given, in
\* document order (skipped headers included).
HeaderDepths ==
    [k \in 1..(Len(sections) - 1) |-> LeadingHashes(sections[k + 1][1])]

\* The first header has depth 1 and no header is more than one level deeper
\* than the header before it.
WellNested ==
    /\ Len(sections) > 1 => HeaderDepths[1] = 1
    /\ \A k \in 2..Len(HeaderDepths) : HeaderDepths[k] <= HeaderDepths[k - 1] + 1

\* The groups made from headers of depth 1, in document order.
TopLevelGroups ==
    LET top == SelectSeq(log, LAMBDA e : e.depth = 1)
    IN  [k \in 1..Len(top) |-> top[k].group]

\* The log entry of the parent the k-th group made from a header belongs
\* under: the latest earlier one of the depth above (0: there is none).
ParentEntry(k) ==
    LET above == {j \in 1..(k - 1) : log[j].depth = log[k].depth - 1}
    IN  IF above = {} THEN 0 ELSE Max(above)

\* The groups that belong under the k-th group made from a header, in
\* document order.
ExpectedChildren(k) ==
    LET mine == SelectSeq([j \in 1..Len(log) |-> j],
                          LAMBDA j : log[j].depth > 1 /\ ParentEntry(j) = k)
    IN  [n \in 1..Len(mine) |-> log[mine[n]].group]

\* The children of the k-th group made from a header, its synthetic controls
\* group aside.
HeaderChildren(k) ==
    SelectSeq(heap[log[k].group].groups,
              LAMBDA c : c # ControlsGroup(log[k].group))

\* C2: when the headers are well nested and the parse returns, the top-level
\* list holds exactly the depth-1 groups in document order, and every deeper
\* group is once in the child list of the latest earlier group of the depth
\* above, and in no other child list.
C2_AttachedToParent ==
    (Returned /\ WellNested) =>
        /\ section_groups = TopLevelGroups
        /\ \A k \in 1..Len(log) : HeaderChildren(k) = ExpectedChildren(k)

\* A well-nested document with a header at each of three depths has been
\* parsed.
C2_NestedParsed ==
    /\ Returned
    /\ WellNested
    /\ \E i, j, k \in 1..Len(log) :
          log[i].depth = 1 /\ log[j].depth = 2 /\ log[k].depth = 3

\* The lines of the input that are not blank, and those that begin with "#".
NonBlankLines == SelectSeq(common_policy, LAMBDA line : line # <<>>)

HeaderLines == SelectSeq(common_policy, LAMBDA line : line # <<>> /\ line[1] = "#")

\* C3: the segmenter produces one front-matter block and one block per header
\* line, and the blocks together are the non-blank lines of the input in
\* order.
C3_OneBlockPerHeader ==
    pc # "segment" =>
        /\ Len(sections) = 1 + Len(HeaderLines)
        /\ Concat(sections) = NonBlankLines

\* The segmenter has run on a document with headers and a last block of
\* several lines.
C3_Segmented ==
    /\ pc = "metadata"
    /\ Len(HeaderLines) >= 2
    /\ common_policy[Len(common_policy)][1] # "#"

\* C4: a parse ends with a returned document, with the error of a section
\* without a header (Exception), or with the error of incomplete metadata
\* (ValueError), and in no other way.
C4_ThreeOutcomes == pc = "done" => raised \in {"none", "Exception", "ValueError"}

\* A parse of a document with several headers has returned.
C4_ParseEnded == Returned /\ Len(log) >= 2

\* C5: a group made from a depth-1 header advances the first counter by one
\* and leaves every deeper counter at zero; and a group made from a header of
\* the depth of the group made just before it has the same ordinal but for the
\* last segment, which is greater.
C5_NumberingMonotonic ==
    [][Len(log') = Len(log) + 1 =>
          /\ log'[Len(log')].depth = 1 =>
                /\ toc_pos'[1] = toc_pos[1] + 1
                /\ \A i \in 2..Len(toc_pos') : toc_pos'[i] = 0
          /\ (Len(log) > 0 /\ log'[Len(log')].depth = log[Len(log)].depth) =>
                LET d    == log[Len(log)].depth
                    was  == log[Len(log)].ordinal
                    next == log'[Len(log')].ordinal
                IN  /\ Len(next) = Len(was)
                    /\ \A i \in 1..(Len(was) - 1) : next[i] = was[i]
                    /\ next[Len(next)] > was[Len(was)]]_vars

\* Two depth-2 headers in a row, and a depth-1 header after deeper ones, have
\* been numbered.
C5_Numbered ==
    /\ Returned
    /\ \E i, j \in 1..Len(log) :
          /\ i + 1 < j
          /\ log[i].depth = 2
          /\ log[i + 1].depth = 2
          /\ log[j].depth = 1

\* The group at g has a synthetic controls group holding one control, whose
\* only part is a statement with the given prose.
HoldsOneStatement(g, prose) ==
    /\ ControlsGroup(g) # 0
    /\ Len(heap[ControlsGroup(g)].controls) = 1
    /\ Len(heap[ControlsGroup(g)].controls[1].parts) = 1
    /\ heap[ControlsGroup(g)].controls[1].parts[1].name = "statement"
    /\ heap[ControlsGroup(g)].controls[1].parts[1].prose = prose

\* C6: the seven-line scenario document parses to version "1.0", published
\* 2020-01-01, and one root group "1 Scope" with the child group
\* Applicability, each with a synthetic controls group holding one control
\* with one statement part, the section's content line.
C6_ScenarioParses ==
    (common_policy = ScenarioDocument /\ pc = "done") =>
        /\ raised = "none"
        /\ metadata.version = Chars("1.0")
        /\ metadata.published = [ok |-> TRUE, y |-> 2020, m |-> 1, d |-> 1]
        /\ Len(section_groups) = 1
        /\ heap[section_groups[1]].title = Chars("1 Scope")
        /\ HoldsOneStatement(section_groups[1], Chars("This is the scope."))
        /\ \E k \in 1..Len(heap[section_groups[1]].groups) :
              /\ Contains(heap[heap[section_groups[1]].groups[k]].title,
                          Chars("Applicability"))
              /\ HoldsOneStatement(heap[section_groups[1]].groups[k],
                                   Chars("Applies broadly."))

\* The call on the scenario document has ended.
C6_ScenarioEnded == common_policy = ScenarioDocument /\ pc = "done"

\* The groups in the child list of the group at g.
ChildSet(g) == {heap[g].groups[i] : i \in 1..Len(heap[g].groups)}

RECURSIVE Closure(_)
Closure(S) ==
    IF UNION {ChildSet(g) : g \in S} \subseteq S THEN S
    ELSE Closure(S \cup UNION {ChildSet(g) : g \in S})

\* The groups below the group at g.
Descendants(g) == Closure(ChildSet(g))

\* C7: in every state of the tree builder no group is below itself, and no
\* group is twice in a child list or in the child lists of two groups.
C7_TreeWithoutCyclesOrSharing ==
    /\ \A g \in DOMAIN heap : g \notin Descendants(g)
    /\ \A g \in DOMAIN heap : Distinct(heap[g].groups)
    /\ \A g, h \in DOMAIN heap : g # h => ChildSet(g) \cap ChildSet(h) = {}

\* A document whose headers skip a level has been parsed to the end.
C7_JumpParsed ==
    /\ Returned
    /\ ~WellNested
    /\ Len(log) >= 2

\* C8: every call starts from the counters [1,0,0,0,0,0,0,0,0], and a second
\* call on the same document makes the identifiers the first call made.
C8_CountersLocalToCall ==
    /\ pc = "segment" => toc_pos = InitialTocPos
    /\ (calls = 1 /\ pc = "done") => Identifiers(heap) = earlier_ids[1]

\* A second call on a document with headers has returned.
C8_ParsedTwice == calls = 1 /\ Returned /\ Len(log) >= 2

\* The block has a line with "Version " and a version after it, and a line
\* that is a long-form date.
HasVersionLine(block) ==
    \E k \in 1..Len(block) :
        Contains(block[k], VersionWord) /\ RemoveAll(block[k], VersionWord) # <<>>

HasDateLine(block) == \E k \in 1..Len(block) : ParseLongDate(block[k]).ok

\* The block has no table and no table of contents, inside which lines are
\* not looked at.
PlainBlock(block) ==
    \A k \in 1..Len(block) :
        /\ ~Contains(block[k], OpenTable)
        /\ ~Contains(block[k], CloseTable)
        /\ ~Contains(block[k], TocTitle)

\* C9: once the metadata extractor has run on the front-matter block, it has
\* raised the error of incomplete metadata (ValueError) if the block has no
\* version line or no date line, and has not raised it if the block is plain
\* and has both; and when it has raised it, the call has ended with no group
\* made and the counters as they were.
C9_IncompleteMetadata ==
    (pc \in {"sections", "done"} /\ Len(sections) >= 1) =>
        /\ (~HasVersionLine(sections[1]) \/ ~HasDateLine(sections[1]))
              => metadata.raised = "ValueError"
        /\ (PlainBlock(sections[1]) /\ HasVersionLine(sections[1])
              /\ HasDateLine(sections[1]))
              => metadata.raised # "ValueError"
        /\ metadata.raised = "ValueError" =>
              /\ pc = "done"
              /\ raised = "ValueError"
              /\ heap = <<>>
              /\ log = <<>>
              /\ toc_pos = InitialTocPos

\* The metadata extractor has raised the error on a front-matter block
\* without a date, before section blocks that hold headers.
C9_Raised ==
    /\ pc = "done"
    /\ metadata.raised = "ValueError"
    /\ Len(sections) >= 2
    /\ HasVersionLine(sections[1])
    /\ ~HasDateLine(sections[1])

\* The visible text of a cell: the text of its fragments, with one space
\* between two styled fragments that follow one another.
RECURSIVE VisibleText(_)
VisibleText(cell) ==
    IF cell = <<>> THEN <<>>
    ELSE IF Len(cell) = 1 THEN cell[1].text
    ELSE cell[1].text
         \o (IF cell[1].styled /\ cell[2].styled THEN <<" ">> ELSE <<>>)
         \o VisibleText(Tail(cell))

\* C10: once a well-formed table has been fed to the parser, the result has
\* the table's rows and cells in order, each cell being its visible text.
C10_TableRoundTrip ==
    (tp_pc = "feed" /\ tp_tokens = <<>>) =>
        /\ tp.raised = "none"
        /\ return_results(tp) =
              [i \in 1..Len(tp_cells) |->
                  [j \in 1..Len(tp_cells[i]) |-> VisibleText(tp_cells[i][j])]]

\* A table of two rows of two cells, one of them of two styled fragments,
\* has been fed whole, and the result has its shape.
C10_TableFed ==
    /\ tp_pc = "feed"
    /\ tp_tokens = <<>>
    /\ Len(tp_cells) = 2
    /\ Len(tp_cells[1]) = 2
    /\ tp_cells[1][1] = <<StyledA, StyledB>>
    /\ Len(return_results(tp)) = 2
    /\ \A i \in 1..2 : Len(return_results(tp)[i]) = 2

\* The titles of the resources a call of parse_backmatter returned.
ResourceTitles == {fn_out[1].resources[k].title : k \in 1..Len(fn_out[1].resources)}

\* C11: of a references table of R rows, the first the header row, the header
\* row is made no resource, no data row without "http" in its second cell is
\* made one, and at most R - 1 resources are made.
C11_HeaderAndUnlinkedRowsDropped ==
    (fn = "parse_backmatter" /\ fn_out # <<>>) =>
        /\ fn_out[1].raised = "none"
        /\ fn_arg[1][1] \notin ResourceTitles
        /\ \A k \in 2..Len(fn_arg) :
              ~Contains(fn_arg[k][2], HttpWord) => fn_arg[k][1] \notin ResourceTitles
        /\ Len(fn_out[1].resources) <= Len(fn_arg) - 1

\* parse_backmatter has returned the resources of a table with a linked and
\* an unlinked data row.
C11_ReferencesParsed ==
    /\ fn = "parse_backmatter"
    /\ fn_out # <<>>
    /\ Len(fn_arg) = 3
    /\ fn_arg[2] = LinkedRow
    /\ fn_arg[3] = UnlinkedRow
    /\ Len(fn_out[1].resources) >= 1

\* C12: title_to_id of what title_to_id returned is what it returned.
C12_TitleToIdIdempotent ==
    (fn = "title_to_id" /\ Len(fn_out) = 2) => fn_out[2] = fn_out[1]

\* title_to_id has been applied twice to a title with capitals, spaces and a
\* removed character.
C12_AppliedTwice ==
    /\ fn = "title_to_id"
    /\ Len(fn_out) = 2
    /\ fn_arg = <<"A", " ", "(">>

\* C13: no ordinal number given to a group has a segment equal to 0.
C13_NoZeroSegment ==
    \A k \in 1..Len(log) : \A i \in 1..Len(log[k].ordinal) : log[k].ordinal[i] # 0

\* The first depth-2 header under a depth-1 header has been numbered.
C13_SubsectionNumbered ==
    /\ Returned
    /\ \E k \in 1..(Len(log) - 1) : log[k].depth = 1 /\ log[k + 1].depth = 2

\* Which child header of its parent the k-th group made from a header is.
ChildRank(k) ==
    Cardinality({j \in 1..k : log[j].depth = log[k].depth
                              /\ ParentEntry(j) = ParentEntry(k)})

\* C14: when the headers are well nested and the parse returns, the ordinal
\* of a group below the top level is the ordinal of the group it belongs
\* under followed by its rank among that group's child headers.
C14_OutlineNumbering ==
    (Returned /\ WellNested) =>
        \A k \in 1..Len(log) :
            (log[k].depth > 1 /\ ParentEntry(k) # 0) =>
                log[k].ordinal = Append(log[ParentEntry(k)].ordinal, ChildRank(k))

\* A well-nested document with two subsections of one section has been
\* parsed.
C14_SubsectionsParsed ==
    /\ Returned
    /\ WellNested
    /\ \E k \in 1..Len(log) : log[k].depth = 2 /\ ChildRank(k) = 2

\* The depth-1 groups made so far, in the order they were made.
TopLevelEntries == SelectSeq(log, LAMBDA e : e.depth = 1)

\* C15: after every block processed without an error, of well-nested headers
\* none of which was skipped, parent_stack is the path to the group made
\* last: as long as that group's depth, starting at the latest top-level
\* group, each further entry a child of the entry before it.
C15_StackIsCurrentPath ==
    (/\ pc = "sections" \/ Returned
     /\ WellNested
     /\ log # <<>>
     /\ Len(log) = section_index - 2) =>
        /\ Len(parent_stack) = log[Len(log)].depth
        /\ parent_stack[1] = TopLevelEntries[Len(TopLevelEntries)].group
        /\ \A i \in 2..Len(parent_stack) :
              parent_stack[i] \in ChildSet(parent_stack[i - 1])

\* A depth-1 header has been processed after a depth-2 header, in a
\* well-nested document without skipped headers.
C15_BackToTopLevel ==
    /\ pc = "sections"
    /\ WellNested
    /\ Len(log) = section_index - 2
    /\ Len(log) >= 3
    /\ log[Len(log)].depth = 1
    /\ log[Len(log) - 1].depth = 2

\* The block is one the builder skips: its header holds "Table of Contents",
\* "References" or "Bibliography", or is empty once hashes and surrounding
\* white space are taken off.
SkippedBlock(section) ==
    \/ Contains(section[1], TocTitle)
    \/ Contains(section[1], ReferencesTitle)
    \/ Contains(section[1], BibliographyTitle)
    \/ Strip(RemoveHashes(section[1])) = <<>>

\* C16: the step that processes a skipped block leaves the outline counters,
\* parent_stack, the top-level group list and every group (its child list
\* included) as they were.
C16_SkippedBlockChangesNothing ==
    [][(InSections /\ SkippedBlock(sections[section_index])) =>
          UNCHANGED <<toc_pos, parent_stack, section_groups, heap>>]_vars

\* A table of contents, a bibliography and a blank header have been passed
\* over, between headers that made groups.
C16_BlocksSkipped ==
    /\ Returned
    /\ Len(sections) = 6
    /\ Contains(sections[3][1], TocTitle)
    /\ Contains(sections[4][1], BibliographyTitle)
    /\ Strip(RemoveHashes(sections[5][1])) = <<>>
    /\ Len(log) = 2
    /\ backmatter.called

\* The lines of the table that closes at index close (0-based) of the block:
\* from its opening tag to its closing tag.
RECURSIVE TableClosingAt(_, _, _)
TableClosingAt(block, open, close) ==
    IF Contains(block[open + 1], OpenTable)
    THEN SubSeq(block, open + 1, close + 1)
    ELSE TableClosingAt(block, open - 1, close)

\* C17: in each caller, at each closing tag, the backward scan starts inside
\* the list and the slice is the table that closes there, from its opening
\* tag to its closing tag.
C17_SliceIsTheTable ==
    (fn = "parse_html_table" /\ fn_out # <<>>) =>
        /\ fn_out[1].inside
        /\ fn_out[1].raised = "none"
        /\ fn_out[1].slice = TableClosingAt(fn_arg.block, fn_arg.close, fn_arg.close)

\* Each caller has called parse_html_table at the closing tag of a table
\* that lies between another table and a text line.
C17_TableScanned ==
    /\ fn = "parse_html_table"
    /\ fn_out # <<>>
    /\ fn_arg.caller = "section_to_control"
    /\ fn_arg.block = TableY \o TableX \o <<TextLine>>
    /\ fn_arg.close = 5

\* The first line of the block that holds "Version ", and the first that is
\* a long-form date.
FirstVersionLine(block) ==
    block[Min({k \in 1..Len(block) : Contains(block[k], VersionWord)})]

FirstDateLine(block) ==
    block[Min({k \in 1..Len(block) : ParseLongDate(block[k]).ok})]

\* C18: the metadata parse_metadata returns has the version of the first
\* version line of the front matter and the date of its first date line.
C18_FirstVersionAndDate ==
    (fn = "parse_metadata" /\ fn_out # <<>> /\ fn_out[1].raised = "none") =>
        /\ fn_out[1].version = RemoveAll(FirstVersionLine(fn_arg), VersionWord)
        /\ fn_out[1].published = ParseLongDate(FirstDateLine(fn_arg))

\* parse_metadata has returned the metadata of a front matter with two
\* different version lines.
C18_TwoVersionLines ==
    /\ fn = "parse_metadata"
    /\ fn_out # <<>>
    /\ fn_out[1].raised = "none"
    /\ fn_arg = <<VersionLine, DateLine, LaterVersionLine>>

\* C19: every data row whose second cell holds "http" is made a resource
\* whose description is the cell's text before the first "http" and whose
\* link is the rest of the cell from there on.
C19_LinkFromFirstHttp ==
    (fn = "parse_backmatter" /\ fn_out # <<>> /\ fn_out[1].raised = "none") =>
        \A k \in 2..Len(fn_arg) :
            Contains(fn_arg[k][2], HttpWord) =>
                \E n \in 1..Len(fn_out[1].resources) :
                    /\ fn_out[1].resources[n].title = fn_arg[k][1]
                    /\ fn_out[1].resources[n].description =
                          SubSeq(fn_arg[k][2], 1, FindFirst(fn_arg[k][2], HttpWord) - 1)
                    /\ fn_out[1].resources[n].href =
                          SubSeq(fn_arg[k][2], FindFirst(fn_arg[k][2], HttpWord),
                                 Len(fn_arg[k][2]))

\* parse_backmatter has returned the resources of a table with a data row
\* whose second cell holds "http" twice.
C19_TwoLinksParsed ==
    /\ fn = "parse_backmatter"
    /\ fn_out # <<>>
    /\ fn_out[1].raised = "none"
    /\ Len(fn_arg) = 2
    /\ fn_arg[2] = TwoLinksRow
    /\ Len(fn_out[1].resources) = 1

\* The characters of s from position i on that lie outside every span from
\* a "<" to the next ">".
RECURSIVE OutsideSpans(_, _)
OutsideSpans(s, i) ==
    IF i > Len(s) THEN <<>>
    ELSE IF s[i] = "<" /\ \E j \in (i + 1)..Len(s) : s[j] = ">"
    THEN OutsideSpans(s, 1 + Min({j \in (i + 1)..Len(s) : s[j] = ">"}))
    ELSE <<s[i]>> \o OutsideSpans(s, i + 1)

\* Every "<" of s from position i on opens a span that a ">" closes before
\* the next "<", and no ">" stands outside a span.
RECURSIVE Bracketed(_, _, _)
Bracketed(s, i, open) ==
    IF i > Len(s) THEN ~open
    ELSE IF s[i] = "<" THEN ~open /\ Bracketed(s, i + 1, TRUE)
    ELSE IF s[i] = ">" THEN open /\ Bracketed(s, i + 1, FALSE)
    ELSE Bracketed(s, i + 1, open)

\* C20: of a line whose angle brackets pair up, strip_html_from_text returns
\* the characters that lie outside every angle-bracket span, in order.
C20_EachSpanRemoved ==
    (fn = "strip_html_from_text" /\ fn_out # <<>> /\ Bracketed(fn_arg, 1, FALSE)) =>
        fn_out[1] = OutsideSpans(fn_arg, 1)

\* strip_html_from_text has been applied to a line with text between two
\* markup spans.
C20_TextBetweenSpans ==
    /\ fn = "strip_html_from_text"
    /\ fn_out # <<>>
    /\ fn_arg = <<"<", ">", "a", "<", ">">>

====
